---- MODULE Spec2Model ----
(***************************************************************************)
(* Model of boost/beast/websocket/detail/impl/prng.ipp:                    *)
(*   prng_seed, prng_pool<T>, make_prng_no_tls (pooled strategy) and       *)
(*   make_prng_tls (thread-exclusive strategy).                            *)
(*                                                                         *)
(* A 32-bit word is a pair <<hi, lo>> of 16-bit limbs, so that sums wrap   *)
(* at 2^32 exactly as std::uint32_t does.                                  *)
(***************************************************************************)
EXTENDS Integers, Sequences, FiniteSets, TLC

\* ---------------------------------------------------------------- bounds
NThreads   == 2      \* threads calling into the subsystem
MaxInst    == 2      \* aligned_alloc fails once this many blocks are in use
MaxHandles == 2      \* prng::ref objects one thread keeps alive at a time
MaxDraws   == 1      \* calls of operator() in one run

\* ------------------------------------------------------- program constants
Limb       == 65536          \* 2^16; a std::uint32_t is two limbs
HalfLimb   == 32768          \* 2^15
MinstdA    == 48271          \* std::minstd_rand multiplier
MinstdM    == 2147483647     \* std::minstd_rand modulus 2^31 - 1
MinstdQ    == 44488          \* MinstdM \div MinstdA (Schrage)
MinstdR    == 3399           \* MinstdM %    MinstdA (Schrage)
SeedWords  == 8              \* std::uint32_t v[8]

Threads  == 1..NThreads
Insts    == 1..MaxInst
Variants == {"fast", "secure"}
Null     == 0

\* ------------------------------------------------------------ 32-bit words
Word(n)   == <<(n \div Limb) % Limb, n % Limb>>

\* mutation: the limbs are added separately, the carry is dropped
Add32NoCarry(a, b) == <<(a[1] + b[1]) % Limb, (a[2] + b[2]) % Limb>>

Add32(a, b) ==
    LET lo == a[2] + b[2]
        hi == a[1] + b[1] + (lo \div Limb)
    IN  <<hi % Limb, lo % Limb>>

\* v[1] + ... + v[k]; each partial sum is bound to s, so that it is
\* computed once
RECURSIVE SumWords(_, _)
SumWords(v, k) ==
    IF k = 0 THEN <<0, 0>>
    ELSE CHOOSE r \in {Add32(s, v[k]) : s \in {SumWords(v, k - 1)}} : TRUE

\* ---------------------------------------------------------- seed material
\* std::seed_seq::generate is library code; what matters here is that it is
\* a fixed function of the sequence it is applied to.
MatA == <<<<0, 1>>, <<0, 2>>, <<0, 3>>, <<0, 4>>,
          <<0, 5>>, <<0, 6>>, <<0, 7>>, <<0, 8>>>>
MatB == <<<<32767, 65533>>, <<0, 1>>, <<0, 0>>, <<0, 0>>,
          <<0, 0>>, <<0, 0>>, <<0, 0>>, <<0, 0>>>>
MatC == <<<<65535, 65535>>, <<0, 5>>, <<0, 0>>, <<0, 0>>,
          <<0, 0>>, <<0, 0>>, <<0, 0>>, <<0, 0>>>>

SeedSeqs == {"ssA", "ssB"}          \* caller-supplied std::seed_seq objects
NoSeq    == "nullptr"               \* std::seed_seq* ss = nullptr
Generate(ss) == IF ss = "ssA" THEN MatA ELSE MatB
Entropy  == {MatB, MatC}            \* outcomes of the std::random_device path
NoSeed   == <<>>                    \* static data d not yet constructed

\* ------------------------------------------------------- generator engines
NoGen == [x |-> 0, key |-> <<>>, ctr |-> 0, idx |-> 0]

\* std::minstd_rand(s): x = s mod m, and 1 when that is 0
MinstdSeed(s) ==
    LET w   == (s[1] % HalfLimb) * Limb + s[2]
        top == s[1] \div HalfLimb
        m   == IF top = 0
               THEN (IF w = MinstdM THEN 0 ELSE w)
               ELSE (IF w = MinstdM THEN 1
                     ELSE IF w = MinstdM - 1 THEN 0 ELSE w + 1)
    IN  IF m = 0 THEN 1 ELSE m

\* x := a * x mod m, by Schrage's decomposition (no overflow)
MinstdNext(x) ==
    LET t == MinstdA * (x % MinstdQ) - MinstdR * (x \div MinstdQ)
    IN  IF t < 0 THEN t + MinstdM ELSE t

\* value handed to r_ by the lambda of fast_prng::fast_prng
FastSeed(pv, n) == Add32(SumWords(pv, SeedWords), Word(n))

FastGen(pv, n)   == [x |-> MinstdSeed(FastSeed(pv, n)), key |-> <<>>,
                     ctr |-> 0, idx |-> 0]
SecureGen(pv, n) == [x |-> 0, key |-> pv, ctr |-> n, idx |-> 0]
NewGen(v, pv, n) == IF v = "fast" THEN FastGen(pv, n) ELSE SecureGen(pv, n)

\* operator()(): advance the engine by one word
GenNext(v, g) ==
    IF v = "fast" THEN [g EXCEPT !.x = MinstdNext(g.x)]
    ELSE [g EXCEPT !.idx = g.idx + 1]

\* ------------------------------------------------------------------ state
VARIABLES
    d,          \* prng_seed: static data const d; NoSeed before the first call
    firstSeed,  \* history: the material computed by the first call
    m_,         \* prng_pool<T>::m_   : 0 or the thread owning the mutex
    head_,      \* prng_pool<T>::head_: 0 or an instance
    next,       \* T::next
    refs_,      \* T::refs_
    r_,         \* T::r_
    mem,        \* block: "none", "raw" (allocated), "live", "freed"
    kind,       \* variant of the instance living in the block
    nonceOf,    \* history: nonce drawn by the instance's constructor
    nonce,      \* static std::atomic<std::uint64_t> nonce, one per class
    pc, var, p, pv,      \* per thread: position and locals
    arg,        \* per thread: the ss of the prng_seed(ss) call in progress
    held,       \* per thread: number of live prng::ref per instance
    draws,      \* operator() calls so far
    peak,       \* history: most instances checked out at once, per pool
    track,      \* history, per pool: what became of its latest acquire
    phase,      \* "run" or "exit" (static destruction)
    dst, dp,    \* ~prng_pool: position and loop variable p
    dtors,      \* history: destructor calls per instance
    tlsAddr,    \* make_prng_tls: storage of thread_local fp / sp
    tlsNonce,   \* make_prng_tls: the two static nonce counters
    tlsGen,     \* make_prng_tls: r_ of the object at an address
    tlsNonceOf, \* history: nonce of the object at an address
    tlsHeld,    \* per thread: live prng::ref per tls object
    ret,        \* per thread: object behind the handle last returned
    BOOST_BEAST_NO_THREAD_LOCAL,   \* the build flag tested by make_prng
    reg         \* per thread: the value of refs_ it has loaded and not yet
                \* stored back (0 when no update of refs_ is in progress)

\* the build flag and the registers belong to neither system's objects;
\* they are listed with both so that every step of either leaves them alone
buildVars == <<BOOST_BEAST_NO_THREAD_LOCAL, reg>>
poolVars == <<m_, head_, next, refs_, r_, mem, kind, nonceOf, nonce, held,
              peak, track, phase, dst, dp,
              dtors, buildVars>>
tlsVars  == <<tlsAddr, tlsNonce, tlsGen, tlsNonceOf, tlsHeld, ret, buildVars>>
vars     == <<d, firstSeed, pc, var, p, pv, arg, draws, poolVars, tlsVars>>

\* ---------------------------------------------------------------- helpers
\* the nodes reached from head_ through next, at most k of them
RECURSIVE Walk(_, _, _)
Walk(nx, q, k) ==
    IF q = Null \/ k = 0 THEN <<>> ELSE <<q>> \o Walk(nx, nx[q], k - 1)

FreeSeq(v)  == Walk(next, head_[v], MaxInst + 1)
FreeList(v) == {FreeSeq(v)[k] : k \in 1..Len(FreeSeq(v))}
OnFreeList(i) == \E v \in Variants : i \in FreeList(v)

RECURSIVE SumOver(_, _)
SumOver(f, S) ==
    IF S = {} THEN 0
    ELSE LET x == CHOOSE y \in S : TRUE IN f[x] + SumOver(f, S \ {x})

Handles(t)    == SumOver(held[t], Insts)              \* refs thread t keeps
Outstanding(i) == SumOver([t \in Threads |-> held[t][i]], Threads)
CheckedOut(v) == {i \in Insts : kind[i] = v /\ refs_[i] > 0}
Made(v)       == {i \in Insts : kind[i] = v}
Max(a, b)     == IF a > b THEN a ELSE b

\* mutation: static instead of thread_local
TlsStorageStatic(t, v) == IF v = "fast" THEN 1 ELSE 2

\* one thread_local fp and one thread_local sp per thread
TlsAddrs == 1..(2 * NThreads)
TlsStorage(t, v) == 2 * (t - 1) + (IF v = "fast" THEN 1 ELSE 2)

NoTrack     == [st |-> "none", who |-> Null]
TrackOf(s, w) == [st |-> s, who |-> w]

\* ----------------------------------------------------------------- Init
\* nothing constructed yet: statics are zero-initialised
Statics ==
    /\ d = NoSeed /\ firstSeed = NoSeed
    /\ m_    = [v \in Variants |-> Null]
    /\ head_ = [v \in Variants |-> Null]
    /\ next  = [i \in Insts |-> Null]
    /\ refs_ = [i \in Insts |-> 0]
    /\ r_    = [i \in Insts |-> NoGen]
    /\ mem   = [i \in Insts |-> "none"]
    /\ kind  = [i \in Insts |-> "none"]
    /\ nonceOf = [i \in Insts |-> 0]
    /\ nonce = [v \in Variants |-> 0]
    /\ pc  = [t \in Threads |-> "idle"]
    /\ var = [t \in Threads |-> "none"]
    /\ p   = [t \in Threads |-> Null]
    /\ pv  = [t \in Threads |-> NoSeed]
    /\ arg = [t \in Threads |-> NoSeq]
    /\ held = [t \in Threads |-> [i \in Insts |-> 0]]
    /\ draws = 0
    /\ peak     = [v \in Variants |-> 0]
    /\ track = [v \in Variants |-> NoTrack]
    /\ phase = "run"
    /\ dst = [v \in Variants |-> "alive"]
    /\ dp  = [v \in Variants |-> Null]
    /\ dtors = [i \in Insts |-> 0]
    /\ tlsAddr    = [t \in Threads |-> [v \in Variants |-> Null]]
    /\ tlsNonce   = [v \in Variants |-> 0]
    /\ tlsGen     = [a \in TlsAddrs |-> NoGen]
    /\ tlsNonceOf = [a \in TlsAddrs |-> 0]
    /\ tlsHeld    = [t \in Threads |-> [v \in Variants |-> 0]]
    /\ ret        = [t \in Threads |-> Null]
    /\ reg        = [t \in Threads |-> Null]

\* a build with thread_local available: make_prng_no_tls and make_prng_tls
\* both exist and are called directly
Init == Statics /\ BOOST_BEAST_NO_THREAD_LOCAL = FALSE

\* ------------------------------------------------------------- prng_seed
\* mutation: d is not static, a supplied sequence is applied on every call
SeedValueReseed(cur, ss, e) ==
    IF ss # NoSeq THEN Generate(ss)
    ELSE IF cur # NoSeed THEN cur ELSE e

\* static data const d(ss): constructed by the first call only
SeedValue(cur, ss, e) ==
    IF cur # NoSeed THEN cur
    ELSE IF ss = NoSeq THEN e ELSE Generate(ss)

\* mutation: the words handed to the caller are fresh entropy on every call
PrngSeedFresh(t, ss) ==
    \E e \in Entropy :
        /\ d' = SeedValue(d, ss, e)
        /\ firstSeed' = IF d = NoSeed THEN d' ELSE firstSeed
        /\ pv' = [pv EXCEPT ![t] = e]

\* prng_seed(ss) called by thread t; the returned words land in pv[t]
PrngSeed(t, ss) ==
    \E e \in Entropy :
        /\ d' = SeedValue(d, ss, e)
        /\ firstSeed' = IF d = NoSeed THEN d' ELSE firstSeed
        /\ pv' = [pv EXCEPT ![t] = d']

\* ---------------------------------------------- prng_pool<T>::acquire
\* mutation: the lock_guard lives until the function returns
UnlockLate(t, v) == m_[v] = t /\ m_' = m_

\* mutation: m_.lock() / m_.unlock() by hand, and the miss path leaves the
\* block without the unlock
UnlockHitOnly(t, v) ==
    /\ m_[v] = t
    /\ m_' = IF pc[t] = "acq_check" /\ head_[v] = Null
             THEN m_ ELSE [m_ EXCEPT ![v] = Null]

\* mutation: std::lock_guard<std::mutex>(m_); a temporary, gone at once
LockTemp(t, v) == m_[v] = Null /\ m_' = m_

Lock(t, v)   == m_[v] = Null /\ m_' = [m_ EXCEPT ![v] = t]
Unlock(t, v) == m_[v] = t    /\ m_' = [m_ EXCEPT ![v] = Null]

\* make_prng_no_tls(secure) -> prng_pool<T>::instance().acquire(): lock_guard
AcqLock(t, v) ==
    /\ phase = "run" /\ pc[t] = "idle"
    /\ Handles(t) < MaxHandles
    /\ Lock(t, v)
    /\ pc'  = [pc EXCEPT ![t] = "acq_check"]
    /\ var' = [var EXCEPT ![t] = v]
    /\ UNCHANGED <<d, firstSeed, head_, next, refs_, r_, mem, kind, nonceOf,
                   nonce, p, pv, arg, held, draws, peak, track, phase, dst, dp,
                   dtors, tlsVars>>

\* mutation: the head is handed out but stays linked
PopHeadStale(v) == head_[v]

\* head_ = head_->next
PopHead(v) == next[head_[v]]

\* mutation: the pool and the handle each count the new reference
IncRefTwice(c) == c + 2

\* T::acquire(): ++refs_
IncRef(c) == c + 1

\* if(head_) { p = head_; head_ = head_->next; return prng::ref(*p); }
\* and ~lock_guard: on the return of the hit path, or at the end of the block
AcqCheck(t) ==
    LET v == var[t]
        q == head_[v]
    IN
    /\ pc[t] = "acq_check"
    /\ IF q # Null
       THEN /\ head_' = [head_ EXCEPT ![v] = PopHead(v)]
            /\ refs_' = [refs_ EXCEPT ![q] = IncRef(refs_[q])]
            /\ held'  = [held EXCEPT ![t][q] = @ + 1]
            /\ pc'    = [pc EXCEPT ![t] = "idle"]
            /\ var'   = [var EXCEPT ![t] = "none"]
            /\ track' = [track EXCEPT ![v] =
                           IF @ = TrackOf("back", q) THEN TrackOf("reused", q)
                           ELSE TrackOf("out", q)]
            /\ peak'  = [peak EXCEPT ![v] =
                           Max(@, Cardinality(CheckedOut(v) \cup {q}))]
       ELSE /\ pc'    = [pc EXCEPT ![t] = "acq_alloc"]
            /\ track' = [track EXCEPT ![v] = TrackOf("pending", t)]
            /\ UNCHANGED <<head_, refs_, held, var, peak>>
    /\ Unlock(t, v)
    /\ UNCHANGED <<d, firstSeed, next, r_, mem, kind, nonceOf, nonce, p, pv, arg,
                   draws, phase, dst, dp, dtors, tlsVars>>

FreeBlocks == {i \in Insts : mem[i] = "none"}

\* p = aligned_alloc(16, sizeof(T)) returns a block
AllocOk(t) ==
    /\ pc[t] = "acq_alloc"
    /\ FreeBlocks # {}
    /\ LET i == CHOOSE x \in FreeBlocks : \A y \in FreeBlocks : x <= y IN
       /\ mem' = [mem EXCEPT ![i] = "raw"]
       /\ p'   = [p EXCEPT ![t] = i]
    /\ pc' = [pc EXCEPT ![t] = "ctor"]
    /\ UNCHANGED <<d, firstSeed, m_, head_, next, refs_, r_, kind, nonceOf,
                   nonce, var, pv, arg, held, draws, peak, track, phase, dst,
                   dp, dtors, tlsVars>>

\* mutation: the nonce is drawn before the allocation is checked
AllocFailConsume(t) ==
    /\ pc[t] = "acq_alloc"
    /\ pc' = [pc EXCEPT ![t] = "bad_alloc"]
    /\ nonce' = [nonce EXCEPT ![var[t]] = @ + 1]
    /\ UNCHANGED <<d, firstSeed, m_, head_, next, refs_, r_, mem, kind,
                   nonceOf, var, p, pv, arg, held, draws, peak, track,
                   phase, dst, dp, dtors, tlsVars>>

\* if(! p) BOOST_THROW_EXCEPTION(std::bad_alloc{})
AllocFail(t) ==
    /\ pc[t] = "acq_alloc"
    /\ pc' = [pc EXCEPT ![t] = "bad_alloc"]
    /\ UNCHANGED <<d, firstSeed, m_, head_, next, refs_, r_, mem, kind,
                   nonceOf, nonce, var, p, pv, arg, held, draws, peak, track,
                   phase, dst, dp, dtors, tlsVars>>

\* the caller of make_prng_no_tls receives the std::bad_alloc
Caught(t) ==
    /\ pc[t] = "bad_alloc"
    /\ pc'  = [pc EXCEPT ![t] = "idle"]
    /\ var' = [var EXCEPT ![t] = "none"]
    /\ UNCHANGED <<d, firstSeed, m_, head_, next, refs_, r_, mem, kind,
                   nonceOf, nonce, p, pv, arg, held, draws, peak, track, phase,
                   dst, dp, dtors, tlsVars>>

\* ---------------------------------------- fast_prng() / secure_prng()
\* auto const pv = prng_seed();
CtorSeed(t) ==
    /\ pc[t] \in {"ctor", "tls_ctor"}
    /\ pv[t] = NoSeed
    /\ PrngSeed(t, NoSeq)
    /\ UNCHANGED <<arg, pc, var, p, draws, poolVars, tlsVars>>

\* mutation: the counter is not static, every constructor starts it at 0
NonceLocal(c) == 0 + 1

\* mutation: the counter is incremented in the lambda and again in the body
NonceTwice(c) == c + 2

\* ++nonce on the std::atomic
NonceIncr(c) == c + 1

\* ++nonce; then ::new(p) T() finishes and prng::ref(*p) takes the first
\* reference.  Nothing but the nonce is shared before the handle is returned.
CtorInit(t) ==
    LET v  == var[t]
        i  == p[t]
        nn == NonceIncr(nonce[v])
    IN
    /\ pc[t] = "ctor"
    /\ pv[t] # NoSeed
    /\ nonce' = [nonce EXCEPT ![v] = nn]
    /\ r_'    = [r_ EXCEPT ![i] = NewGen(v, pv[t], nn)]
    /\ refs_' = [refs_ EXCEPT ![i] = IncRef(0)]
    /\ next'  = [next EXCEPT ![i] = Null]
    /\ mem'   = [mem EXCEPT ![i] = "live"]
    /\ kind'  = [kind EXCEPT ![i] = v]
    /\ nonceOf' = [nonceOf EXCEPT ![i] = nn]
    /\ held'  = [held EXCEPT ![t][i] = 1]
    /\ track' = [track EXCEPT ![v] =
                   IF @ = TrackOf("pending", t) THEN TrackOf("out", i) ELSE @]
    /\ peak'  = [peak EXCEPT ![v] =
                   Max(@, Cardinality(CheckedOut(v) \cup {i}))]
    /\ pc'  = [pc EXCEPT ![t] = "idle"]
    /\ var' = [var EXCEPT ![t] = "none"]
    /\ p'   = [p EXCEPT ![t] = Null]
    /\ pv'  = [pv EXCEPT ![t] = NoSeed]
    /\ UNCHANGED <<d, firstSeed, arg, m_, head_, draws, phase, dst, dp,
                   dtors, tlsVars>>

\* ------------------------------------------------------------ prng::ref
\* prng::ref(ref const&): p_(&other.p_->acquire())  ->  ++refs_
RefCopy(t, i) ==
    /\ phase = "run" /\ pc[t] = "idle"
    /\ held[t][i] > 0
    /\ Handles(t) < MaxHandles
    /\ refs_' = [refs_ EXCEPT ![i] = IncRef(refs_[i])]
    /\ held'  = [held EXCEPT ![t][i] = @ + 1]
    /\ UNCHANGED <<d, firstSeed, m_, head_, next, r_, mem, kind, nonceOf,
                   nonce, pc, var, p, pv, arg, draws, peak, track, phase, dst,
                   dp, dtors, tlsVars>>

\* mutation: if(--refs_ <= 1)
LastRefEarly(c) == c <= 1

\* mutation: if(refs_-- == 0)
LastRefPost(c) == c + 1 = 0

\* T::release(): if(--refs_ == 0)
LastRef(c) == c = 0

\* ~ref(): p_->release()
RefDestroy(t, i) ==
    /\ phase = "run" /\ pc[t] = "idle"
    /\ held[t][i] > 0
    /\ refs_' = [refs_ EXCEPT ![i] = @ - 1]
    /\ held'  = [held EXCEPT ![t][i] = @ - 1]
    /\ IF LastRef(refs_'[i])
       THEN /\ pc'  = [pc EXCEPT ![t] = "rel_lock"]
            /\ p'   = [p EXCEPT ![t] = i]
            /\ var' = [var EXCEPT ![t] = kind[i]]
       ELSE UNCHANGED <<pc, p, var>>
    /\ UNCHANGED <<d, firstSeed, m_, head_, next, r_, mem, kind, nonceOf,
                   nonce, pv, arg, draws, peak, track, phase, dst, dp, dtors,
                   tlsVars>>

\* ------------------------------------------------ prng_pool<T>::release
\* std::lock_guard<std::mutex> g(m_);
RelLock(t) ==
    /\ pc[t] = "rel_lock"
    /\ Lock(t, var[t])
    /\ pc' = [pc EXCEPT ![t] = "rel_push"]
    /\ UNCHANGED <<d, firstSeed, head_, next, refs_, r_, mem, kind, nonceOf,
                   nonce, var, p, pv, arg, held, draws, peak, track, phase,
                   dst, dp, dtors, tlsVars>>

\* mutation: t.next = &t
PushLinkSelf(v, i) == i

\* t.next = head_;
PushLink(v, i) == head_[v]

\* mutation: head_ is assigned only when the list is empty
PushHeadKeep(v, i) == IF head_[v] = Null THEN i ELSE head_[v]

\* head_ = &t;
PushHead(v, i) == i

\* t.next = head_; head_ = &t; and ~lock_guard
RelPush(t) ==
    LET v == var[t]
        i == p[t]
    IN
    /\ pc[t] = "rel_push"
    /\ next'  = [next EXCEPT ![i] = PushLink(v, i)]
    /\ head_' = [head_ EXCEPT ![v] = PushHead(v, i)]
    /\ Unlock(t, v)
    /\ pc'  = [pc EXCEPT ![t] = "idle"]
    /\ var' = [var EXCEPT ![t] = "none"]
    /\ p'   = [p EXCEPT ![t] = Null]
    /\ track' = [track EXCEPT ![v] =
                   IF @.st \in {"out", "reused"} /\ @.who = i
                   THEN TrackOf("back", i)
                   ELSE IF @.st = "back" THEN TrackOf("buried", @.who)
                   ELSE @]
    /\ UNCHANGED <<d, firstSeed, refs_, r_, mem, kind, nonceOf, nonce, pv, arg, held, draws, peak, phase, dst, dp, dtors, tlsVars>>

\* ----------------------------------------------------------- operator()
\* return r_();  through a handle the thread holds
Draw(t, i) ==
    /\ phase = "run" /\ pc[t] = "idle"
    /\ held[t][i] > 0
    /\ draws < MaxDraws
    /\ r_' = [r_ EXCEPT ![i] = GenNext(kind[i], r_[i])]
    /\ draws' = draws + 1
    /\ UNCHANGED <<d, firstSeed, m_, head_, next, refs_, mem, kind, nonceOf,
                   nonce, pc, var, p, pv, arg, held, peak, track, phase, dst,
                   dp, dtors, tlsVars>>

\* ---------------------------------------------------------- ~prng_pool
\* static destruction starts; callers may still hold handles
StaticExit ==
    /\ phase = "run"
    /\ \A t \in Threads : pc[t] = "idle"
    /\ phase' = "exit"
    /\ UNCHANGED <<d, firstSeed, m_, head_, next, refs_, r_, mem, kind,
                   nonceOf, nonce, pc, var, p, pv, arg, held, draws, peak,
                   track, dst, dp, dtors, tlsVars>>

\* for(auto p = head_; ...       (static objects are destroyed one by one)
DtorBegin(v) ==
    /\ phase = "exit" /\ dst[v] = "alive"
    /\ \A w \in Variants : dst[w] # "walk"
    /\ dp'  = [dp EXCEPT ![v] = head_[v]]
    /\ dst' = [dst EXCEPT ![v] = "walk"]
    /\ UNCHANGED <<d, firstSeed, m_, head_, next, refs_, r_, mem, kind,
                   nonceOf, nonce, pc, var, p, pv, arg, held, draws, peak,
                   track, phase, dtors, tlsVars>>

\* mutation: p is not advanced once
DtorAdvanceStay(q) == q

\* auto next = p->next; ... p = next;
DtorAdvance(q) == next[q]

\* ... p;) { auto next = p->next; p->~T(); aligned_free(p); p = next; }
DtorStep(v) ==
    /\ dst[v] = "walk"
    /\ IF dp[v] = Null
       THEN /\ dst' = [dst EXCEPT ![v] = "dead"]
            /\ UNCHANGED <<dp, mem, dtors>>
       ELSE /\ dtors[dp[v]] < 2
            /\ mem'   = [mem EXCEPT ![dp[v]] = "freed"]
            /\ dtors' = [dtors EXCEPT ![dp[v]] = @ + 1]
            /\ dp'    = [dp EXCEPT ![v] = DtorAdvance(dp[v])]
            /\ UNCHANGED dst
    /\ UNCHANGED <<d, firstSeed, m_, head_, next, refs_, r_, kind, nonceOf,
                   nonce, pc, var, p, pv, arg, held, draws, peak, track, phase,
                   tlsVars>>

\* ---------------------------------------------------------- pooled system
Next ==
    \/ \E t \in Threads, v \in Variants : AcqLock(t, v)
    \/ \E t \in Threads : AcqCheck(t)
    \/ \E t \in Threads : AllocOk(t)
    \/ \E t \in Threads : AllocFail(t)
    \/ \E t \in Threads : Caught(t)
    \/ \E t \in Threads : CtorSeed(t)
    \/ \E t \in Threads : CtorInit(t)
    \/ \E t \in Threads, i \in Insts : RefCopy(t, i)
    \/ \E t \in Threads, i \in Insts : RefDestroy(t, i)
    \/ \E t \in Threads : RelLock(t)
    \/ \E t \in Threads : RelPush(t)
    \/ \E t \in Threads, i \in Insts : Draw(t, i)
    \/ StaticExit
    \/ \E v \in Variants : DtorBegin(v)
    \/ \E v \in Variants : DtorStep(v)

Spec == Init /\ [][Next]_vars

\* ------------------------------------------------------- make_prng_tls
TlsHandles(t) == tlsHeld[t]["fast"] + tlsHeld[t]["secure"]

\* thread_local T x; return prng::ref(x);   (T::acquire() is a no-op)
TlsCall(t, v) ==
    /\ pc[t] = "idle"
    /\ TlsHandles(t) < MaxHandles
    /\ IF tlsAddr[t][v] # Null
       THEN /\ ret' = [ret EXCEPT ![t] = tlsAddr[t][v]]
            /\ tlsHeld' = [tlsHeld EXCEPT ![t][v] = @ + 1]
            /\ UNCHANGED <<pc, var>>
       ELSE /\ pc'  = [pc EXCEPT ![t] = "tls_ctor"]
            /\ var' = [var EXCEPT ![t] = v]
            /\ UNCHANGED <<ret, tlsHeld>>
    /\ UNCHANGED <<d, firstSeed, p, pv, arg, draws, poolVars, tlsAddr, tlsNonce,
                   tlsGen, tlsNonceOf>>

\* first pass through the declaration: ++nonce, the object is constructed
\* in the calling thread's storage, and the handle is returned
TlsCtorInit(t) ==
    LET v  == var[t]
        a  == TlsStorage(t, v)
        nn == NonceIncr(tlsNonce[v])
    IN
    /\ pc[t] = "tls_ctor"
    /\ pv[t] # NoSeed
    /\ tlsNonce' = [tlsNonce EXCEPT ![v] = nn]
    /\ tlsGen'   = [tlsGen EXCEPT ![a] = NewGen(v, pv[t], nn)]
    /\ tlsNonceOf' = [tlsNonceOf EXCEPT ![a] = nn]
    /\ tlsAddr'  = [tlsAddr EXCEPT ![t][v] = a]
    /\ ret'      = [ret EXCEPT ![t] = a]
    /\ tlsHeld'  = [tlsHeld EXCEPT ![t][v] = @ + 1]
    /\ pc'  = [pc EXCEPT ![t] = "idle"]
    /\ var' = [var EXCEPT ![t] = "none"]
    /\ pv'  = [pv EXCEPT ![t] = NoSeed]
    /\ UNCHANGED <<arg, d, firstSeed, p, draws, poolVars>>

\* prng::ref(ref const&) and ~ref(): acquire() and release() do nothing
TlsRefCopy(t, v) ==
    /\ pc[t] = "idle"
    /\ tlsHeld[t][v] > 0
    /\ TlsHandles(t) < MaxHandles
    /\ tlsHeld' = [tlsHeld EXCEPT ![t][v] = @ + 1]
    /\ UNCHANGED <<d, firstSeed, pc, var, p, pv, arg, draws, poolVars, tlsAddr,
                   tlsNonce, tlsGen, tlsNonceOf, ret>>

TlsRefDestroy(t, v) ==
    /\ pc[t] = "idle"
    /\ tlsHeld[t][v] > 0
    /\ tlsHeld' = [tlsHeld EXCEPT ![t][v] = @ - 1]
    /\ UNCHANGED <<d, firstSeed, pc, var, p, pv, arg, draws, poolVars, tlsAddr,
                   tlsNonce, tlsGen, tlsNonceOf, ret>>

\* return r_();
TlsDraw(t, v) ==
    /\ pc[t] = "idle"
    /\ tlsHeld[t][v] > 0
    /\ draws < MaxDraws
    /\ tlsGen' = [tlsGen EXCEPT ![tlsAddr[t][v]] = GenNext(v, @)]
    /\ draws' = draws + 1
    /\ UNCHANGED <<d, firstSeed, pc, var, p, pv, arg, poolVars, tlsAddr, tlsNonce,
                   tlsNonceOf, tlsHeld, ret>>

\* a direct call prng_seed(ss), ss a seed sequence or nullptr
SeedCall(t, ss) ==
    /\ pc[t] = "idle"
    /\ PrngSeed(t, ss)
    /\ arg' = [arg EXCEPT ![t] = ss]
    /\ pc'  = [pc EXCEPT ![t] = "seed_ret"]
    /\ UNCHANGED <<var, p, draws, poolVars, tlsVars>>

\* the caller is done with the returned words
SeedRet(t) ==
    /\ pc[t] = "seed_ret"
    /\ pc' = [pc EXCEPT ![t] = "idle"]
    /\ pv'  = [pv EXCEPT ![t] = NoSeed]
    /\ arg' = [arg EXCEPT ![t] = NoSeq]
    /\ UNCHANGED <<d, firstSeed, var, p, draws, poolVars, tlsVars>>

\* ------------------------------------------------- thread-exclusive system
NextTls ==
    \/ \E t \in Threads, v \in Variants : TlsCall(t, v)
    \/ \E t \in Threads : CtorSeed(t)
    \/ \E t \in Threads : TlsCtorInit(t)
    \/ \E t \in Threads, v \in Variants : TlsRefCopy(t, v)
    \/ \E t \in Threads, v \in Variants : TlsRefDestroy(t, v)
    \/ \E t \in Threads, v \in Variants : TlsDraw(t, v)
    \/ \E t \in Threads, ss \in SeedSeqs \cup {NoSeq} : SeedCall(t, ss)
    \/ \E t \in Threads : SeedRet(t)

SpecTls == Init /\ [][NextTls]_vars

\* ------------------------------------------------------------- make_prng
\* mutation: the two branches of if(secure) are exchanged
ClassOfSwapped(secure) == IF secure THEN "fast" ELSE "secure"

\* if(secure) ... secure_prng ...;  otherwise fast_prng
ClassOf(secure) == IF secure THEN "secure" ELSE "fast"

\* make_prng_no_tls(secure): prng_pool<T>::instance().acquire()
make_prng_no_tls(t, secure) == AcqLock(t, ClassOf(secure))

\* make_prng_tls(secure): thread_local T x; return prng::ref(x)
make_prng_tls(t, secure) == TlsCall(t, ClassOf(secure))

\* #if BOOST_BEAST_NO_THREAD_LOCAL ... #else ... #endif
make_prng(t, secure) ==
    IF BOOST_BEAST_NO_THREAD_LOCAL
    THEN make_prng_no_tls(t, secure)
    ELSE make_prng_tls(t, secure)

\* either build of the library
InitBuild == Statics /\ BOOST_BEAST_NO_THREAD_LOCAL \in BOOLEAN

\* ------------------------------------------- callers that use make_prng only
NextBuild ==
    \/ \E t \in Threads, secure \in BOOLEAN : make_prng(t, secure)
    \/ \E t \in Threads : AcqCheck(t)
    \/ \E t \in Threads : AllocOk(t)
    \/ \E t \in Threads : AllocFail(t)
    \/ \E t \in Threads : Caught(t)
    \/ \E t \in Threads : CtorSeed(t)
    \/ \E t \in Threads : CtorInit(t)
    \/ \E t \in Threads, i \in Insts : RefDestroy(t, i)
    \/ \E t \in Threads : RelLock(t)
    \/ \E t \in Threads : RelPush(t)
    \/ \E t \in Threads, i \in Insts : Draw(t, i)
    \/ \E t \in Threads : TlsCtorInit(t)
    \/ \E t \in Threads, v \in Variants : TlsRefDestroy(t, v)
    \/ \E t \in Threads, v \in Variants : TlsDraw(t, v)

SpecBuild == InitBuild /\ [][NextBuild]_vars

\* --------------------------------------- handles passed between threads
tlsObjs == <<tlsAddr, tlsNonce, tlsGen, tlsNonceOf, tlsHeld, ret>>

\* A run is followed up to the first update of refs_ that goes wrong: once
\* the count of an instance is off while no update of it is in progress, no
\* further handle operation on that instance is explored.  This keeps refs_
\* in a finite range.
Intact(i) ==
    (\A t \in Threads : ~(pc[t] \in {"inc_store", "dec_store"} /\ p[t] = i))
        => refs_[i] = Outstanding(i)

\* a prng::ref changes hands: the object that holds it is passed to
\* another thread; no member function of the generator runs
Give(t, u, i) ==
    /\ phase = "run" /\ pc[t] = "idle" /\ pc[u] = "idle"
    /\ t # u
    /\ held[t][i] > 0
    /\ Handles(u) < MaxHandles
    /\ Intact(i)
    /\ held' = [held EXCEPT ![t][i] = @ - 1, ![u][i] = @ + 1]
    /\ UNCHANGED <<d, firstSeed, m_, head_, next, refs_, r_, mem, kind,
                   nonceOf, nonce, pc, var, p, pv, arg, draws, peak, track,
                   phase, dst, dp, dtors, tlsVars>>

\* refs_ is a plain int and T::acquire() / T::release() take no lock: when
\* handles on one instance live in different threads, ++refs_ and --refs_
\* are a load and a store that other threads' steps can separate.

\* prng::ref(ref const&) -> T::acquire(): ++refs_, the load
IncLoad(t, i) ==
    /\ phase = "run" /\ pc[t] = "idle"
    /\ held[t][i] > 0
    /\ Handles(t) < MaxHandles
    /\ Intact(i)
    /\ reg' = [reg EXCEPT ![t] = refs_[i]]
    /\ p'   = [p EXCEPT ![t] = i]
    /\ pc'  = [pc EXCEPT ![t] = "inc_store"]
    /\ UNCHANGED <<d, firstSeed, m_, head_, next, refs_, r_, mem, kind,
                   nonceOf, nonce, var, pv, arg, held, draws, peak, track,
                   phase, dst, dp, dtors, tlsObjs,
                   BOOST_BEAST_NO_THREAD_LOCAL>>

\* ++refs_, the store; the copy of the handle exists from here on
IncStore(t) ==
    LET i == p[t] IN
    /\ pc[t] = "inc_store"
    /\ refs_' = [refs_ EXCEPT ![i] = IncRef(reg[t])]
    /\ held'  = [held EXCEPT ![t][i] = @ + 1]
    /\ reg'   = [reg EXCEPT ![t] = Null]
    /\ p'     = [p EXCEPT ![t] = Null]
    /\ pc'    = [pc EXCEPT ![t] = "idle"]
    /\ UNCHANGED <<d, firstSeed, m_, head_, next, r_, mem, kind, nonceOf,
                   nonce, var, pv, arg, draws, peak, track, phase, dst, dp,
                   dtors, tlsObjs, BOOST_BEAST_NO_THREAD_LOCAL>>

\* ~ref() -> T::release(): --refs_, the load; the handle is gone
DecLoad(t, i) ==
    /\ phase = "run" /\ pc[t] = "idle"
    /\ held[t][i] > 0
    /\ Intact(i)
    /\ reg'  = [reg EXCEPT ![t] = refs_[i]]
    /\ held' = [held EXCEPT ![t][i] = @ - 1]
    /\ p'    = [p EXCEPT ![t] = i]
    /\ pc'   = [pc EXCEPT ![t] = "dec_store"]
    /\ UNCHANGED <<d, firstSeed, m_, head_, next, refs_, r_, mem, kind,
                   nonceOf, nonce, var, pv, arg, draws, peak, track, phase,
                   dst, dp, dtors, tlsObjs, BOOST_BEAST_NO_THREAD_LOCAL>>

\* if(--refs_ == 0) prng_pool<T>::instance().release(*this);
DecStore(t) ==
    LET i == p[t] IN
    /\ pc[t] = "dec_store"
    /\ refs_' = [refs_ EXCEPT ![i] = reg[t] - 1]
    /\ reg'   = [reg EXCEPT ![t] = Null]
    /\ IF LastRef(refs_'[i])
       THEN /\ pc'  = [pc EXCEPT ![t] = "rel_lock"]
            /\ var' = [var EXCEPT ![t] = kind[i]]
            /\ UNCHANGED p
       ELSE /\ pc'  = [pc EXCEPT ![t] = "idle"]
            /\ p'   = [p EXCEPT ![t] = Null]
            /\ UNCHANGED var
    /\ UNCHANGED <<d, firstSeed, m_, head_, next, r_, mem, kind, nonceOf,
                   nonce, pv, arg, held, draws, peak, track, phase, dst, dp,
                   dtors, tlsObjs, BOOST_BEAST_NO_THREAD_LOCAL>>

\* ------------------------------- pooled system, handles shared by threads
NextShared ==
    \/ \E t \in Threads, v \in Variants : AcqLock(t, v)
    \/ \E t \in Threads : AcqCheck(t)
    \/ \E t \in Threads : AllocOk(t)
    \/ \E t \in Threads : AllocFail(t)
    \/ \E t \in Threads : Caught(t)
    \/ \E t \in Threads : CtorSeed(t)
    \/ \E t \in Threads : CtorInit(t)
    \/ \E t, u \in Threads, i \in Insts : Give(t, u, i)
    \/ \E t \in Threads, i \in Insts : IncLoad(t, i)
    \/ \E t \in Threads : IncStore(t)
    \/ \E t \in Threads, i \in Insts : DecLoad(t, i)
    \/ \E t \in Threads : DecStore(t)
    \/ \E t \in Threads : RelLock(t)
    \/ \E t \in Threads : RelPush(t)

SpecShared == Init /\ [][NextShared]_vars

\* ------------------------------------- the pooled system with its scheduler
\* make_prng_no_tls(secure) has entered prng_pool<T>::acquire and is about
\* to construct the lock_guard
AcqCall(t, v) ==
    /\ phase = "run" /\ pc[t] = "idle"
    /\ Handles(t) < MaxHandles
    /\ pc'  = [pc EXCEPT ![t] = "acq_lock"]
    /\ var' = [var EXCEPT ![t] = v]
    /\ UNCHANGED <<d, firstSeed, m_, head_, next, refs_, r_, mem, kind,
                   nonceOf, nonce, p, pv, arg, held, draws, peak, track,
                   phase, dst, dp, dtors, tlsVars>>

\* std::lock_guard<std::mutex> g(m_) returns: the thread owns the mutex
AcqEnter(t) ==
    /\ pc[t] = "acq_lock"
    /\ Lock(t, var[t])
    /\ pc' = [pc EXCEPT ![t] = "acq_check"]
    /\ UNCHANGED <<d, firstSeed, head_, next, refs_, r_, mem, kind, nonceOf,
                   nonce, var, p, pv, arg, held, draws, peak, track, phase,
                   dst, dp, dtors, tlsVars>>

\* aligned_alloc returns: a block, or nothing
Alloc(t) == AllocOk(t) \/ AllocFail(t)

NextLive ==
    \/ \E t \in Threads, v \in Variants : AcqCall(t, v)
    \/ \E t \in Threads : AcqEnter(t)
    \/ \E t \in Threads : AcqCheck(t)
    \/ \E t \in Threads : Alloc(t)
    \/ \E t \in Threads : Caught(t)
    \/ \E t \in Threads : CtorSeed(t)
    \/ \E t \in Threads : CtorInit(t)
    \/ \E t \in Threads, i \in Insts : RefDestroy(t, i)
    \/ \E t \in Threads : RelLock(t)
    \/ \E t \in Threads : RelPush(t)

\* the steps of thread t that wait for nothing
Run(t) ==
    \/ AcqCheck(t) \/ Alloc(t) \/ Caught(t)
    \/ CtorSeed(t) \/ CtorInit(t) \/ RelPush(t)

\* the steps of thread t that wait for a mutex
Enter(t) == AcqEnter(t) \/ RelLock(t)

\* A thread inside acquire or release keeps running (weak fairness of its
\* steps), and a thread blocked in std::mutex::lock gets the mutex if it is
\* released again and again (strong fairness of the two lock steps).
\* Nothing obliges a caller to start an acquire or to destroy a handle.
Fairness ==
    \A t \in Threads : WF_vars(Run(t)) /\ SF_vars(Enter(t))

SpecLive == Init /\ [][NextLive]_vars /\ Fairness

\* ======================================================================
\* Properties
\* ======================================================================
Constructed(i) == mem[i] \in {"live", "freed"}

\* the threads whose call chain owns instance i: through a live handle, or
\* while running the release that hands it back to the pool
Holders(i)  == {t \in Threads : held[t][i] > 0}
Releasing(i) == {t \in Threads : pc[t] \in {"rel_lock", "rel_push"} /\ p[t] = i}
Owners(i)   == Holders(i) \cup Releasing(i)

\* the step of thread t that decides its acquire (pop, or miss)
AcqStep(t) == pc[t] = "acq_check" /\ pc'[t] # "acq_check"

\* every thread has finished and released every handle
AllDone == /\ phase = "run"
           /\ \A t \in Threads : pc[t] = "idle" /\ Handles(t) = 0

\* ---------------------------------------------------------------- C1
\* C1: under any interleaving of pooled acquire and handle release, no
\* instance is held through live handles by two different threads at once.
C1_MutualExclusion ==
    \A i \in Insts : \A t1, t2 \in Threads :
        (held[t1][i] > 0 /\ held[t2][i] > 0) => t1 = t2

\* two threads hold instances of the same pool at once, one of them an
\* instance that went through the free list
C1_Witness ==
    \E t1, t2 \in Threads : \E i, j \in Insts :
        /\ t1 # t2 /\ i # j /\ kind[i] = kind[j]
        /\ held[t1][i] > 0 /\ held[t2][j] > 0
        /\ track[kind[i]] = TrackOf("reused", i)

\* ---------------------------------------------------------------- C2
\* C2: every constructed instance is in exactly one place: on the free list
\* of its own pool with reference count zero and no owner, or off every
\* free list and owned by exactly one caller chain; each free list is
\* acyclic and holds no instance twice.
C2_ExactlyOnePlace ==
    /\ \A v \in Variants :
          /\ Len(FreeSeq(v)) <= MaxInst
          /\ Len(FreeSeq(v)) = Cardinality(FreeList(v))
          /\ \A i \in FreeList(v) : kind[i] = v
    /\ phase = "run" =>
          \A i \in Insts : mem[i] = "live" =>
              IF OnFreeList(i)
              THEN refs_[i] = 0 /\ Owners(i) = {}
              ELSE Cardinality(Owners(i)) = 1

\* one instance idle on the free list while another one of the same pool
\* is checked out
C2_Witness ==
    \E i, j \in Insts :
        /\ i # j /\ kind[i] = kind[j]
        /\ OnFreeList(i) /\ refs_[i] = 0
        /\ ~OnFreeList(j) /\ refs_[j] > 0

\* ---------------------------------------------------------------- C3
\* C3: a handle copy increments the count of the same instance, a handle
\* destruction decrements it, the count equals the number of live handles,
\* and an instance enters the free list only when its count is zero: the
\* release that leaves the count positive starts no pool release, the one
\* that brings it to zero does.
C3_NestedHolding ==
    [][\A i \in Insts :
          /\ refs_[i] = Outstanding(i)
          /\ \A t \in Threads :
                /\ held'[t][i] > held[t][i] =>
                      refs_'[i] = refs_[i] + 1 /\ held'[t][i] = held[t][i] + 1
                /\ held'[t][i] < held[t][i] =>
                      /\ refs_'[i] = refs_[i] - 1
                      /\ IF refs_'[i] = 0
                         THEN pc'[t] = "rel_lock" /\ p'[t] = i
                         ELSE pc'[t] = "idle" /\ ~(OnFreeList(i))'
          /\ (~OnFreeList(i) /\ (OnFreeList(i))') =>
                refs_[i] = 0 /\ refs_'[i] = 0 /\ Releasing(i) # {}
      ]_vars

\* an instance held twice by one thread
C3_Witness ==
    \E t \in Threads, i \in Insts :
        held[t][i] = 2 /\ refs_[i] = 2 /\ ~OnFreeList(i)

C5_SeedStability ==
    [][/\ d # NoSeed => d' = d /\ d = firstSeed
       /\ \A t \in Threads :
             (pv'[t] # pv[t] /\ pv'[t] # NoSeed) =>
                 pv'[t] = firstSeed' /\ pv'[t] = d'
      ]_vars

\* a call that supplied ssA got back material that came from the entropy
\* source on an earlier call
C5_Witness ==
    \E t \in Threads :
        pc[t] = "seed_ret" /\ arg[t] = "ssA" /\ pv[t] = MatC /\ d = MatC

\* ---------------------------------------------------------------- C6
\* C6 as stated: when an instance was acquired and fully released with no
\* acquire on its pool in between, the next acquire on that pool returns it.
C6_ReuseSameInstance ==
    [][\A t \in Threads :
          (AcqStep(t) /\ track[var[t]].st \in {"back", "buried"}) =>
              held'[t][track[var[t]].who] = held[t][track[var[t]].who] + 1
      ]_vars

\* C6 amended: when an instance was acquired and fully released with no
\* acquire on its pool in between, and no other release on that pool has
\* followed, the next acquire on that pool returns it; that acquire
\* constructs nothing and draws no nonce, and from the release to the reuse
\* the generator state of the instance does not change.
C6_ReuseUndisturbed ==
    [][/\ \A t \in Threads :
             (AcqStep(t) /\ track[var[t]].st = "back") =>
                 /\ held'[t][track[var[t]].who] = held[t][track[var[t]].who] + 1
                 /\ r_' = r_ /\ nonce' = nonce /\ mem' = mem /\ kind' = kind
       /\ \A i \in Insts :
             (mem[i] = "live" /\ refs_[i] = 0) =>
                 r_'[i] = r_[i] /\ nonceOf'[i] = nonceOf[i]
      ]_vars

\* an instance that produced output, went through the free list and is
\* held again, its state still the advanced one
C6_Witness ==
    \E t \in Threads, i \in Insts :
        /\ kind[i] # "none"
        /\ track[kind[i]] = TrackOf("reused", i)
        /\ held[t][i] > 0
        /\ r_[i] = GenNext(kind[i], NewGen(kind[i], d, nonceOf[i]))

\* ---------------------------------------------------------------- C7
\* C7 as stated: once every thread has finished and released, the size of
\* the free list equals the peak number of instances checked out at once.
C7_FinalSizeIsPeak ==
    AllDone => \A v \in Variants : Len(FreeSeq(v)) = peak[v]

\* C7 amended: once every thread has finished and released, the size of
\* the free list equals the number of instances ever constructed, which is
\* at least the peak number checked out at once.
C7_FinalSizeIsMade ==
    AllDone => \A v \in Variants :
        /\ Len(FreeSeq(v)) = Cardinality(Made(v))
        /\ FreeList(v) = Made(v)
        /\ Len(FreeSeq(v)) >= peak[v]

\* all done, two instances on the fast free list, never more than one out
C7_Witness ==
    AllDone /\ Len(FreeSeq("fast")) = 2 /\ peak["fast"] = 1

\* ---------------------------------------------------------------- C8
\* C8: under make_prng_tls a thread's calls for a variant always return the
\* same object, objects of different threads are different, and an object
\* comes into being only in a call of its own thread for that variant.
C8_ThreadExclusive ==
    [][/\ \A t1, t2 \in Threads : \A v1, v2 \in Variants :
             (t1 # t2 /\ tlsAddr'[t1][v1] # Null) =>
                 tlsAddr'[t1][v1] # tlsAddr'[t2][v2]
       /\ \A t \in Threads : \A v \in Variants :
             /\ tlsAddr[t][v] # Null => tlsAddr'[t][v] = tlsAddr[t][v]
             /\ tlsAddr'[t][v] # tlsAddr[t][v] =>
                   pc[t] = "tls_ctor" /\ var[t] = v
             /\ tlsHeld'[t][v] > tlsHeld[t][v] =>
                   /\ tlsAddr'[t][v] # Null
                   /\ ret'[t] # ret[t] => ret'[t] = tlsAddr'[t][v]
       /\ \A t1, t2 \in Threads :
             (t1 # t2 /\ ret'[t1] # Null) => ret'[t1] # ret'[t2]
      ]_vars

\* two threads each own a fast object, one of them through two handles
C8_Witness ==
    \E t1, t2 \in Threads :
        /\ t1 # t2
        /\ tlsAddr[t1]["fast"] # Null /\ tlsAddr[t2]["fast"] # Null
        /\ tlsHeld[t1]["fast"] = 2 /\ tlsHeld[t2]["fast"] > 0

\* ---------------------------------------------------------------- C9
\* C9: a failed allocation ends the call with std::bad_alloc: the thread
\* does not hold the mutex, nothing is retried, and the free list, every
\* instance and the nonce counters are as they were.
C9_AllocFailure ==
    [][\A t \in Threads :
          /\ (pc[t] = "acq_alloc" /\ pc'[t] = "bad_alloc") =>
                /\ \A v \in Variants : m_[v] # t /\ m_'[v] = m_[v]
                /\ head_' = head_ /\ next' = next /\ refs_' = refs_
                /\ r_' = r_ /\ mem' = mem /\ kind' = kind /\ nonce' = nonce
                /\ held' = held
          /\ (pc[t] = "acq_alloc" /\ pc'[t] # pc[t] /\ FreeBlocks = {}) =>
                pc'[t] = "bad_alloc"
          /\ (pc[t] = "bad_alloc" /\ pc'[t] # pc[t]) =>
                /\ pc'[t] = "idle"
                /\ head_' = head_ /\ mem' = mem /\ nonce' = nonce /\ m_' = m_
      ]_vars

\* the allocation failed although blocks were available, while the other
\* thread holds an instance of the same pool
C9_Witness ==
    \E t \in Threads, i \in Insts :
        /\ pc[t] = "bad_alloc" /\ FreeBlocks # {}
        /\ kind[i] = var[t] /\ refs_[i] > 0 /\ held[t][i] = 0

\* --------------------------------------------------------------- C10
\* C10: ~prng_pool destructs and frees each instance of its free list
\* exactly once and leaves every other instance as it is.
C10_Teardown ==
    [][/\ \A i \in Insts :
             /\ dtors'[i] <= 1
             /\ dtors'[i] = 1 <=> mem'[i] = "freed"
             /\ dtors'[i] = 1 => (OnFreeList(i))'
             /\ \A v \in Variants :
                   (i \in (FreeList(v))' /\ dst'[v] = "dead") => dtors'[i] = 1
       /\ phase = "exit" =>
             /\ \A i \in Insts : ~OnFreeList(i) => mem'[i] = mem[i]
             /\ refs_' = refs_ /\ r_' = r_ /\ next' = next /\ head_' = head_
             /\ kind' = kind /\ held' = held /\ nonce' = nonce
      ]_vars

\* both pools are gone: an instance that was on a free list is freed, one
\* that was checked out is untouched
C10_Witness ==
    /\ \A v \in Variants : dst[v] = "dead"
    /\ \E i, j \in Insts :
          /\ OnFreeList(i) /\ mem[i] = "freed" /\ dtors[i] = 1
          /\ refs_[j] > 0 /\ mem[j] = "live" /\ dtors[j] = 0
          /\ kind[i] = kind[j]

\* --------------------------------------------------------------- C11
\* the class of a generator, read off its engine
ClassOfGen(g) == IF g.key = <<>> THEN "fast" ELSE "secure"

\* C11: make_prng(secure) hands out a Secure instance when secure is true
\* and a Fast one otherwise; whether the pool or the thread's own object
\* serves the call is decided by the build flag, which never changes; a
\* pooled instance is popped from, and pushed to, the free list of its own
\* class only.
C11_FactoryRouting ==
    [][/\ BOOST_BEAST_NO_THREAD_LOCAL' = BOOST_BEAST_NO_THREAD_LOCAL
       /\ \A t \in Threads : \A secure \in BOOLEAN :
             make_prng(t, secure) =>
                LET v == IF secure THEN "secure" ELSE "fast" IN
                IF BOOST_BEAST_NO_THREAD_LOCAL
                THEN /\ pc'[t] = "acq_check" /\ var'[t] = v
                     /\ tlsHeld' = tlsHeld /\ tlsAddr' = tlsAddr
                ELSE /\ held' = held /\ m_' = m_ /\ head_' = head_
                     /\ \/ tlsHeld'[t][v] = tlsHeld[t][v] + 1
                        \/ pc'[t] = "tls_ctor" /\ var'[t] = v
       /\ \A t \in Threads : \A i \in Insts :
             held'[t][i] > held[t][i] =>
                /\ BOOST_BEAST_NO_THREAD_LOCAL
                /\ kind'[i] = var[t] /\ ClassOfGen(r_'[i]) = var[t]
                /\ pc[t] = "acq_check" =>
                      /\ i = head_[var[t]]
                      /\ \A v \in Variants : i \notin (FreeList(v))'
       /\ \A t \in Threads : \A v \in Variants :
             tlsHeld'[t][v] > tlsHeld[t][v] =>
                /\ ~BOOST_BEAST_NO_THREAD_LOCAL
                /\ ret'[t] = tlsAddr'[t][v]
                /\ ClassOfGen(tlsGen'[ret'[t]]) = v
       /\ \A i \in Insts :
             (~OnFreeList(i) /\ (OnFreeList(i))') =>
                /\ \A v \in Variants :
                      i \in (FreeList(v))' <=> v = kind[i]
                /\ \E t \in Threads : pc[t] = "rel_push" /\ var[t] = kind[i]
       /\ \A v \in Variants : \A i \in FreeList(v) :
             kind[i] = v /\ ClassOfGen(r_[i]) = v
      ]_vars

\* the pooled build: a Secure instance that went through its free list is
\* held again while the other thread holds a Fast instance
C11_Witness ==
    \E t1, t2 \in Threads : \E i, j \in Insts :
        /\ BOOST_BEAST_NO_THREAD_LOCAL
        /\ t1 # t2
        /\ held[t1][i] > 0 /\ kind[i] = "secure"
        /\ track["secure"] = TrackOf("reused", i)
        /\ held[t2][j] > 0 /\ kind[j] = "fast"


\* --------------------------------------------------------------- C12
\* C12: before any word is drawn, two instances constructed with different
\* nonces hold different engine states, so that their streams differ.
C12_DistinctStreams ==
    draws = 0 =>
        \A i, j \in Insts :
            (i # j /\ Constructed(i) /\ Constructed(j)
                   /\ nonceOf[i] # nonceOf[j]) => r_[i] # r_[j]


\* --------------------------------------------------------------- C13
\* the engine after k calls of operator()
RECURSIVE GenAfter(_, _, _)
GenAfter(v, g, k) == IF k = 0 THEN g ELSE GenNext(v, GenAfter(v, g, k - 1))

\* how many words were drawn from an engine of class v that was seeded
\* with nonce n and is now g; -1 when g is not on that stream
Drawn(v, n, g) ==
    IF \E k \in 0..MaxDraws : g = GenAfter(v, NewGen(v, d, n), k)
    THEN CHOOSE k \in 0..MaxDraws : g = GenAfter(v, NewGen(v, d, n), k)
    ELSE 0 - 1

\* C13: the state of every generator, pooled or thread-local, is the one
\* its class, the seed material and its nonce determine, advanced by the
\* words drawn from it; which thread constructed, held or released it, and
\* whether it went through a free list, makes no difference.
C13_StreamDeterminism ==
    /\ \A i \in Insts : Constructed(i) =>
           Drawn(kind[i], nonceOf[i], r_[i]) >= 0
    /\ \A t \in Threads : \A v \in Variants : tlsAddr[t][v] # Null =>
           Drawn(v, tlsNonceOf[tlsAddr[t][v]], tlsGen[tlsAddr[t][v]]) >= 0
    /\ draws =
          SumOver([i \in Insts |->
                     IF Constructed(i)
                     THEN Drawn(kind[i], nonceOf[i], r_[i]) ELSE 0], Insts)
        + SumOver([a \in TlsAddrs |->
                     IF \E t \in Threads, v \in Variants : tlsAddr[t][v] = a
                     THEN LET v == CHOOSE w \in Variants :
                                     \E t \in Threads : tlsAddr[t][w] = a
                          IN  Drawn(v, tlsNonceOf[a], tlsGen[a])
                     ELSE 0], TlsAddrs)

\* a Fast instance seeded past the 2^32 wrap with nonce 2, one word drawn,
\* now on the free list after a release
C13_Witness ==
    \E i \in Insts :
        /\ kind[i] = "fast" /\ d = MatC /\ nonceOf[i] = 2
        /\ draws = 1 /\ r_[i] = GenAfter("fast", FastGen(MatC, 2), 1)
        /\ OnFreeList(i)


\* --------------------------------------------------------------- C14
\* the threads in the middle of ++refs_ or --refs_ on instance i
Updating(i) == {t \in Threads : pc[t] \in {"inc_store", "dec_store"} /\ p[t] = i}

\* C14: whenever no update of an instance's count is in progress, the count
\* equals the number of live handles, whichever threads hold them; the
\* instance is on its way back to the pool exactly when no handle is left.
C14_CountIntegrity ==
    \A i \in Insts : (mem[i] = "live" /\ Updating(i) = {}) =>
        /\ refs_[i] = Outstanding(i)
        /\ Outstanding(i) = 0 <=> (OnFreeList(i) \/ Releasing(i) # {})


\* --------------------------------------------------------------- C15
\* the step is one of acquire or release that reads or writes the free
\* list of pool v
CallAccess(v) ==
    \/ head_'[v] # head_[v]
    \/ \E i \in Insts : kind[i] = v /\ next'[i] # next[i]
    \/ \E t \in Threads :
          var[t] = v /\ pc[t] \in {"acq_check", "rel_push"} /\ pc'[t] # pc[t]

\* the step is one of ~prng_pool that reads head_ or a next link of pool v
TeardownAccess(v) ==
    \/ dst[v] = "alive" /\ dst'[v] = "walk"
    \/ dst[v] = "walk" /\ dp[v] # Null /\ dp'[v] # dp[v]
    \/ dst[v] = "walk" /\ dp[v] # Null /\ dtors' # dtors

\* thread t is inside the critical section of pool v and takes the step
InSection(t, v) ==
    /\ m_[v] = t /\ var[t] = v
    /\ pc[t] \in {"acq_check", "rel_push"} /\ pc'[t] # pc[t]

\* C15 as stated: every step that reads or writes a free list, teardown
\* included, is taken while the mutex of that pool is held.
C15_AllUnderLock ==
    [][\A v \in Variants :
          (CallAccess(v) \/ TeardownAccess(v)) => m_[v] # Null
      ]_vars

\* C15 amended: every read or write of a free list by acquire or release
\* is made by the thread that holds the mutex of that pool, and a thread
\* is at such an access only while it holds it; ~prng_pool reads head_ and
\* the next links without taking the mutex, and writes neither.
C15_CallsUnderLock ==
    [][/\ \A v \in Variants :
             /\ CallAccess(v) => \E t \in Threads : InSection(t, v)
             /\ TeardownAccess(v) =>
                   /\ m_[v] = Null /\ m_'[v] = Null
                   /\ head_' = head_ /\ next' = next
       /\ \A t \in Threads :
             pc[t] \in {"acq_check", "rel_push"} => m_[var[t]] = t
      ]_vars

\* ~prng_pool is walking, unlocked, a list that two releases built under
\* the lock
C15_Witness ==
    \E v \in Variants :
        /\ dst[v] = "walk" /\ dp[v] # Null /\ m_[v] = Null
        /\ next[dp[v]] # Null
        /\ track[v].st = "buried"


\* --------------------------------------------------------------- C16
\* thread t is on the miss path: allocating, failing, or constructing
OnMissPath(t) == pc[t] \in {"acq_alloc", "bad_alloc", "ctor"}

\* C16: the miss path of acquire starts with the mutex released; a thread
\* that allocates, reads the seed material, draws a nonce or constructs an
\* instance holds no pool mutex.
C16_NoAllocUnderLock ==
    [][/\ \A t \in Threads :
             /\ OnMissPath(t) => \A v \in Variants : m_[v] # t
             /\ (AcqStep(t) /\ pc'[t] = "acq_alloc") =>
                   m_[var[t]] = t /\ m_'[var[t]] = Null /\ mem' = mem
       /\ (phase = "run" /\ (mem' # mem \/ nonce' # nonce \/ d' # d
                               \/ kind' # kind)) =>
             \E t \in Threads :
                 /\ pc[t] \in {"acq_alloc", "ctor"}
                 /\ \A v \in Variants : m_[v] # t /\ m_'[v] # t
                 /\ pc'[t] # pc[t] \/ pv'[t] # pv[t]
      ]_vars

\* a thread has read the seed material and is about to construct, while
\* the other thread is inside the critical section of the same pool
C16_Witness ==
    \E t, u \in Threads :
        /\ t # u
        /\ pc[t] = "ctor" /\ pv[t] # NoSeed
        /\ pc[u] = "acq_check" /\ var[u] = var[t] /\ m_[var[t]] = u


\* --------------------------------------------------------------- C17
\* C17: an acquire that returns hands out exactly one handle, on the head
\* it popped or on the instance it constructed, and leaves the reference
\* count of that instance at exactly 1.
C17_CountOnHandOut ==
    [][\A t \in Threads :
          /\ \A i \in Insts :
                (pc[t] \in {"acq_check", "ctor"} /\ held'[t][i] # held[t][i]) =>
                    /\ refs_'[i] = 1 /\ held'[t][i] = 1
                    /\ \A u \in Threads : u # t => held'[u][i] = 0
                    /\ pc'[t] = "idle"
                    /\ i = IF pc[t] = "ctor" THEN p[t] ELSE head_[var[t]]
          /\ (AcqStep(t) /\ head_[var[t]] # Null) =>
                held'[t][head_[var[t]]] = 1
          /\ (pc[t] = "ctor" /\ pc'[t] = "idle") => held'[t][p[t]] = 1
      ]_vars

\* a handle on the second Fast instance ever built, obtained by popping it
\* from the free list: count 1, one handle
C17_Witness ==
    \E t \in Threads, i \in Insts :
        /\ kind[i] = "fast" /\ nonceOf[i] = 2
        /\ track["fast"] = TrackOf("reused", i)
        /\ held[t][i] = 1 /\ refs_[i] = 1


\* --------------------------------------------------------------- C18
\* (pv[0] + ... + pv[7] + n) mod 2^32, summed column by column
SeedExpected(w, n) ==
    LET lo == SumOver([k \in 1..SeedWords |-> w[k][2]], 1..SeedWords)
                + (n % Limb)
        hi == SumOver([k \in 1..SeedWords |-> w[k][1]], 1..SeedWords)
                + ((n \div Limb) % Limb) + (lo \div Limb)
    IN  <<hi % Limb, lo % Limb>>

\* C18: a Fast constructor, pooled or thread-local, increments its nonce
\* counter exactly once, from 0 to 1 the first time, and seeds its engine
\* with (pv[0] + ... + pv[7] + n) mod 2^32, n the incremented counter and pv
\* the seed material; the counters change at no other step.
C18_FastSeedArithmetic ==
    [][/\ \A t \in Threads :
             (pc[t] = "ctor" /\ pc'[t] = "idle" /\ var[t] = "fast") =>
                /\ nonce'["fast"] = nonce["fast"] + 1
                /\ nonceOf'[p[t]] = nonce'["fast"]
                /\ FastSeed(pv[t], nonce'["fast"])
                      = SeedExpected(d, nonce'["fast"])
                /\ r_'[p[t]].x
                      = MinstdSeed(SeedExpected(d, nonce'["fast"]))
       /\ \A t \in Threads :
             (pc[t] = "tls_ctor" /\ pc'[t] = "idle" /\ var[t] = "fast") =>
                /\ tlsNonce'["fast"] = tlsNonce["fast"] + 1
                /\ tlsNonceOf'[ret'[t]] = tlsNonce'["fast"]
                /\ FastSeed(pv[t], tlsNonce'["fast"])
                      = SeedExpected(d, tlsNonce'["fast"])
                /\ tlsGen'[ret'[t]].x
                      = MinstdSeed(SeedExpected(d, tlsNonce'["fast"]))
       /\ \A v \in Variants :
             /\ nonce'[v] # nonce[v] =>
                   \E t \in Threads :
                       pc[t] = "ctor" /\ pc'[t] = "idle" /\ var[t] = v
             /\ tlsNonce'[v] # tlsNonce[v] =>
                   \E t \in Threads :
                       pc[t] = "tls_ctor" /\ pc'[t] = "idle" /\ var[t] = v
             /\ nonce[v] = Cardinality(Made(v))
             /\ tlsNonce[v] =
                   Cardinality({t \in Threads : tlsAddr[t][v] # Null})
      ]_vars

\* the second thread-local Fast object, its seed wrapped past 2^32:
\* 0xFFFFFFFF + 5 + 2 = 6 (mod 2^32)
C18_Witness ==
    \E t \in Threads :
        /\ ~BOOST_BEAST_NO_THREAD_LOCAL
        /\ d = MatC
        /\ tlsAddr[t]["fast"] # Null
        /\ tlsNonceOf[tlsAddr[t]["fast"]] = 2
        /\ tlsGen[tlsAddr[t]["fast"]].x = 6


\* --------------------------------------------------------------- C19
\* the steps thread t can take inside acquire or release
ThreadStep(t) == Run(t) \/ Enter(t)

InAcquire(t) == pc[t] \in {"acq_lock", "acq_check", "acq_alloc", "ctor"}
InRelease(t) == pc[t] \in {"rel_lock", "rel_push"}

\* the mutex is owned only inside the two critical sections, a thread that
\* asks for a mutex owns none, and every thread inside a call can take a
\* step or waits for a mutex whose owner can
MutexDiscipline ==
    /\ \A v \in Variants : m_[v] # Null =>
           pc[m_[v]] \in {"acq_check", "rel_push"} /\ var[m_[v]] = v
    /\ \A t \in Threads :
           /\ pc[t] \in {"acq_lock", "rel_lock", "acq_alloc", "bad_alloc",
                         "ctor", "idle"} => \A v \in Variants : m_[v] # t
           /\ pc[t] # "idle" =>
                 \/ ENABLED ThreadStep(t)
                 \/ \E u \in Threads :
                       u # t /\ m_[var[t]] = u /\ ENABLED ThreadStep(u)

Quiescent == phase = "run" /\ \A t \in Threads : pc[t] = "idle"

\* C20: before teardown an instance, once constructed, stays constructed
\* and is on its free list or owned; in a quiescent state the instances
\* constructed for a class are as many as its nonce counter says and as
\* many as are on its free list or checked out; an acquire that finds an
\* instance on the free list constructs nothing.
C20_Conservation ==
    [][/\ phase = "run" =>
             \A i \in Insts :
                /\ mem[i] # "freed" /\ dtors[i] = 0
                /\ mem[i] = "live" =>
                      /\ mem'[i] = "live" /\ kind'[i] = kind[i]
                      /\ OnFreeList(i) \/ Owners(i) # {}
       /\ Quiescent =>
             \A v \in Variants :
                /\ Cardinality(Made(v)) = nonce[v]
                /\ Cardinality(Made(v))
                      = Len(FreeSeq(v)) + Cardinality(CheckedOut(v))
       /\ \A t \in Threads :
             (AcqStep(t) /\ head_[var[t]] # Null) =>
                /\ mem' = mem /\ kind' = kind /\ nonce' = nonce
                /\ pc'[t] = "idle"
      ]_vars

\* quiescent, two instances of a class constructed: one on the free list,
\* one checked out, after an allocation that failed for the other class
C20_Witness ==
    \E v \in Variants :
        /\ Quiescent
        /\ nonce[v] = 2
        /\ Len(FreeSeq(v)) = 1 /\ Cardinality(CheckedOut(v)) = 1
        /\ \E w \in Variants : w # v /\ track[w].st = "pending"

====
